---- MODULE Spec2Model ----
(***************************************************************************)
(* A model of the backtesting platform's core: the simulation loop and the *)
(* risk helpers of BacktestEngine (src/app/backtester/engine.py), the      *)
(* signal generation of MovingAverageCrossover, MACDStrategy and           *)
(* BollingerBandStrategy (src/app/strategies/) and the PerformanceMetrics  *)
(* accessors (src/app/backtester/metrics.py).                              *)
(*                                                                         *)
(* Specifications.  Spec: one call of run_backtest and the accessors over  *)
(* its trades and values.  SpecRepeat: two calls on one engine.            *)
(* SpecStops: a call during which the stop-loss and take-profit checks are *)
(* evaluated.  SpecRisk: calculate_position_size and                       *)
(* calculate_portfolio_risk_metrics.  SpecSignals: generate_signals of the *)
(* three strategies.  SpecMetrics and SpecMonthly: the accessors on        *)
(* results built by hand.                                                  *)
(*                                                                         *)
(* Numbers.  The program computes in IEEE doubles.  The model computes in  *)
(* exact rationals extended with the three special doubles the program     *)
(* can produce (NaN, +inf, -inf): a value is a record [k, n, d] with       *)
(* k = "num" and n/d a fraction in lowest terms with d > 0, or k = "nan",  *)
(* or k = "inf" with the sign in n.  Rounding error is not modelled.       *)
(***************************************************************************)
EXTENDS Integers, Sequences, FiniteSets, TLC

(***************************************************************************)
(* Bounds of the model.                                                    *)
(***************************************************************************)
\* longest input bar series
MaxBars == 3
\* longest rolling window of a moving-average strategy
MaxPeriod == 3
\* the non-zero initial capital
TopCapital == 100
\* longest equity curve of a BacktestResult built by hand
MaxSnapshots == 4

(***************************************************************************)
(* Double arithmetic.                                                      *)
(***************************************************************************)
RECURSIVE GCD(_, _)
GCD(a, b) == IF b = 0 THEN a ELSE GCD(b, a % b)

Abs(x) == IF x < 0 THEN -x ELSE x

NaN == [k |-> "nan", n |-> 0, d |-> 1]
PosInf == [k |-> "inf", n |-> 1, d |-> 1]
NegInf == [k |-> "inf", n |-> -1, d |-> 1]

\* the double a/b, b # 0, in lowest terms
Frac(a, b) ==
    LET g == GCD(Abs(a), Abs(b))
        s == IF b < 0 THEN -1 ELSE 1
    IN  [k |-> "num", n |-> (s * a) \div g, d |-> (s * b) \div g]

Num(i) == [k |-> "num", n |-> i, d |-> 1]
Zero == Num(0)
One == Num(1)

IsNaN(x) == x.k = "nan"
IsInf(x) == x.k = "inf"
IsNum(x) == x.k = "num"
\* -1, 0 or 1; NaN has no sign and is never asked for one
Sign(x) == IF x.n < 0 THEN -1 ELSE IF x.n > 0 THEN 1 ELSE 0

FNeg(x) == IF IsNaN(x) THEN NaN ELSE [x EXCEPT !.n = -x.n]

FAdd(x, y) ==
    IF IsNaN(x) \/ IsNaN(y) THEN NaN
    ELSE IF IsInf(x) /\ IsInf(y) THEN (IF x.n = y.n THEN x ELSE NaN)
    ELSE IF IsInf(x) THEN x
    ELSE IF IsInf(y) THEN y
    ELSE LET g == GCD(x.d, y.d)
         IN  Frac(x.n * (y.d \div g) + y.n * (x.d \div g), (x.d \div g) * y.d)

FSub(x, y) == FAdd(x, FNeg(y))

FMul(x, y) ==
    IF IsNaN(x) \/ IsNaN(y) THEN NaN
    ELSE IF IsInf(x) \/ IsInf(y)
         THEN (IF Sign(x) * Sign(y) = 0 THEN NaN
               ELSE IF Sign(x) * Sign(y) > 0 THEN PosInf ELSE NegInf)
    ELSE LET g1 == GCD(Abs(x.n), y.d)
             g2 == GCD(Abs(y.n), x.d)
         IN  Frac((x.n \div g1) * (y.n \div g2), (x.d \div g2) * (y.d \div g1))

\* numpy's double division: x/0 is +-inf, 0/0 is NaN, nothing raises
FDiv(x, y) ==
    IF IsNaN(x) \/ IsNaN(y) THEN NaN
    ELSE IF IsInf(x) THEN (IF IsInf(y) THEN NaN
                           ELSE IF Sign(y) < 0 THEN FNeg(x) ELSE x)
    ELSE IF IsInf(y) THEN Zero
    ELSE IF y.n = 0 THEN (IF x.n = 0 THEN NaN
                          ELSE IF x.n > 0 THEN PosInf ELSE NegInf)
    ELSE FMul(x, Frac(y.d, y.n))

\* comparisons: every comparison with NaN is false
FEq(x, y) == ~IsNaN(x) /\ ~IsNaN(y) /\ x = y
FLt(x, y) ==
    /\ ~IsNaN(x) /\ ~IsNaN(y)
    /\ IF IsInf(x) /\ IsInf(y) THEN x.n < y.n ELSE Sign(FSub(x, y)) < 0
FGt(x, y) == FLt(y, x)
FLe(x, y) == FLt(x, y) \/ FEq(x, y)
FGe(x, y) == FLe(y, x)
FNe(x, y) == ~FEq(x, y)

FAbs(x) == IF IsNaN(x) THEN NaN ELSE [x EXCEPT !.n = Abs(x.n)]

\* Python's int() of a finite double: truncation towards zero
TruncInt(x) == IF x.n >= 0 THEN x.n \div x.d ELSE -((-x.n) \div x.d)

(***************************************************************************)
(* State.                                                                  *)
(***************************************************************************)
VARIABLES
    initial_capital,         \* BacktestEngine.initial_capital
    commission,              \* BacktestEngine.commission
    max_position_size,       \* BacktestEngine.max_position_size
    stop_loss_pct,           \* BacktestEngine.stop_loss_pct
    take_profit_pct,         \* BacktestEngine.take_profit_pct
    max_risk_per_trade,      \* BacktestEngine.max_risk_per_trade
    open_positions,          \* BacktestEngine.open_positions
    data,                    \* run_backtest's bar series: the closes, by date 1..n
    strategy,                \* run_backtest's strategy object
    pc,                      \* where run_backtest is
    signal_data,             \* strategy.generate_signals(data)
    i,                       \* rows of signal_data the loop has processed
    cash,                    \* portfolio['cash']
    holdings,                \* portfolio['holdings']
    trades,                  \* trades
    equity_curve,            \* equity_curve
    prev_portfolio_value,    \* prev_portfolio_value
    current_portfolio_value, \* current_portfolio_value
    result,                  \* what run_backtest returned
    earlier,                 \* what the call of run_backtest before this one returned
    metrics,                 \* what the last PerformanceMetrics accessor returned
    returned                 \* what the last call of a risk helper returned

\* the fields of the engine: __init__ sets them, and no method assigns to them
self == <<initial_capital, commission, max_position_size, stop_loss_pct,
          take_profit_pct, max_risk_per_trade, open_positions>>

vars == <<self, data, strategy, pc, signal_data, i, cash, holdings, trades,
          equity_curve, prev_portfolio_value, current_portfolio_value, result,
          earlier, metrics, returned>>

\* the defaults of __init__ for the risk settings, and nothing called yet
DefaultRiskSettings ==
    /\ max_position_size = Frac(1, 10)
    /\ stop_loss_pct = Frac(5, 100)
    /\ take_profit_pct = Frac(15, 100)
    /\ max_risk_per_trade = Frac(2, 100)
    /\ open_positions = <<>>
NothingEarlier ==
    /\ earlier = [status |-> "none"]
    /\ returned = [name |-> "none"]

\* a local that no statement has assigned yet
Unbound == [k |-> "unbound", n |-> 0, d |-> 1]
\* the signal of a row that the loop has not read yet (see RowSignals)
Pending == [k |-> "pending", n |-> 0, d |-> 1]

\* the values of a signal column: BUY, SELL, HOLD and null
Signals == {Num(1), Num(-1), Num(0), NaN}

\* the closes of the input bars: two prices, so that a position can gain and lose
Closes == {1, 2}
BarSeries == UNION {[1..len -> Closes] : len \in 0..MaxBars}
InitialCapitals == {Num(0), Num(TopCapital)}
Commissions == {Num(0), Frac(1, 10), Num(1), Num(2)}
Strategies ==
    {[kind |-> "Generic", fast_period |-> 0, slow_period |-> 0]} \cup
    {[kind |-> "MovingAverageCrossover", fast_period |-> f, slow_period |-> s] :
        f \in 1..MaxPeriod, s \in 1..MaxPeriod}

(***************************************************************************)
(* MovingAverageCrossover.generate_signals.                                *)
(***************************************************************************)
RECURSIVE SumCloses(_, _, _)
SumCloses(closes, from, to) ==
    IF from > to THEN 0 ELSE closes[from] + SumCloses(closes, from + 1, to)

\* data['close'].rolling(window).mean() at row t: null until `window` rows are seen
RollingMean(closes, window, t) ==
    IF t < window THEN NaN ELSE Frac(SumCloses(closes, t - window + 1, t), window)

\* the signal column: 0, then 1 where fast > slow, then -1 where fast < slow
\* faulty variant: equal averages count as fast above slow
CrossoverSignalNotStrict(ma_fast, ma_slow) ==
    IF FLt(ma_fast, ma_slow) THEN Num(-1)
    ELSE IF FGe(ma_fast, ma_slow) THEN Num(1)
    ELSE Num(0)
CrossoverSignal(ma_fast, ma_slow) ==
    IF FLt(ma_fast, ma_slow) THEN Num(-1)
    ELSE IF FGt(ma_fast, ma_slow) THEN Num(1)
    ELSE Num(0)

CrossoverRow(closes, fast, slow, t) ==
    LET ma_fast == RollingMean(closes, fast, t)
        ma_slow == RollingMean(closes, slow, t)
    IN  [date |-> t, close |-> Num(closes[t]), ma_fast |-> ma_fast,
         ma_slow |-> ma_slow, signal |-> CrossoverSignal(ma_fast, ma_slow)]

\* DataFrame.dropna(): the rows with no null in any column, in order
RECURSIVE DropNa(_)
DropNa(rows) ==
    IF rows = <<>> THEN <<>>
    ELSE LET r == Head(rows)
         IN  IF \E col \in DOMAIN r : col # "date" /\ IsNaN(r[col])
             THEN DropNa(Tail(rows))
             ELSE <<r>> \o DropNa(Tail(rows))

MovingAverageCrossover_generate_signals(closes, fast, slow) ==
    DropNa([t \in 1..Len(closes) |-> CrossoverRow(closes, fast, slow, t)])

(***************************************************************************)
(* MACDStrategy.generate_signals.                                          *)
(***************************************************************************)
\* Series.ewm(span=span).mean() at row t, with pandas' defaults (adjust=True,
\* min_periods=0): the average of rows 1..t, row t - j weighted (1 - alpha)^j,
\* where alpha = 2 / (span + 1)
Decay(span) == Frac(span - 1, span + 1)
RECURSIVE EwmWeighted(_, _, _)
EwmWeighted(xs, span, t) ==
    IF t = 0 THEN Zero ELSE FAdd(xs[t], FMul(Decay(span), EwmWeighted(xs, span, t - 1)))
RECURSIVE EwmWeights(_, _)
EwmWeights(span, t) ==
    IF t = 0 THEN Zero ELSE FAdd(One, FMul(Decay(span), EwmWeights(span, t - 1)))
Ewm(xs, span, t) == FDiv(EwmWeighted(xs, span, t), EwmWeights(span, t))

\* Series.shift(1) at row t: the row before, and null on the first row
Shift(xs, t) == IF t = 1 THEN NaN ELSE xs[t - 1]

\* the signal column: 0, then 1 on a cross above, then -1 on a cross below
\* faulty variant: the bar before is not looked at
MACDSignalByLevel(macd, signal_line, macd_before, signal_before) ==
    IF FLt(macd, signal_line) THEN Num(-1)
    ELSE IF FGt(macd, signal_line) THEN Num(1)
    ELSE Num(0)
\* faulty variant: BUY on every bar on which the line is above, crossed or not
MACDSignalWhileAbove(macd, signal_line, macd_before, signal_before) ==
    IF FLt(macd, signal_line) /\ FGe(macd_before, signal_before) THEN Num(-1)
    ELSE IF FGt(macd, signal_line) THEN Num(1)
    ELSE Num(0)
MACDSignal(macd, signal_line, macd_before, signal_before) ==
    IF FLt(macd, signal_line) /\ FGe(macd_before, signal_before) THEN Num(-1)
    ELSE IF FGt(macd, signal_line) /\ FLe(macd_before, signal_before) THEN Num(1)
    ELSE Num(0)

MACDStrategy_generate_signals(closes, fast, slow, signal_period) ==
    LET close == [t \in 1..Len(closes) |-> Num(closes[t])]
        macd_line == [t \in 1..Len(closes) |->
                         FSub(Ewm(close, fast, t), Ewm(close, slow, t))]
        signal_line == [t \in 1..Len(closes) |-> Ewm(macd_line, signal_period, t)]
    IN  [t \in 1..Len(closes) |->
            [date |-> t, close |-> close[t], macd |-> macd_line[t],
             macd_signal |-> signal_line[t],
             macd_histogram |-> FSub(macd_line[t], signal_line[t]),
             signal |-> MACDSignal(macd_line[t], signal_line[t],
                                   Shift(macd_line, t), Shift(signal_line, t))]]

\* A strategy the model does not compute: it keeps every bar, and the signal
\* of each row is an input, drawn when the loop reads the row.  A strategy is
\* a function of the bars: the signals it gave on an earlier call (`known`,
\* the rows of that call) are the signals it gives again.
Generic_generate_signals(closes, known) ==
    [t \in 1..Len(closes) |->
        [date |-> t, close |-> Num(closes[t]),
         signal |-> IF t <= Len(known) THEN known[t].signal ELSE Pending]]

generate_signals(s, closes, known) ==
    IF s.kind = "MovingAverageCrossover"
    THEN MovingAverageCrossover_generate_signals(closes, s.fast_period, s.slow_period)
    ELSE IF s.kind = "MACDStrategy"
    THEN MACDStrategy_generate_signals(closes, s.fast_period, s.slow_period,
                                       s.signal_period)
    ELSE Generic_generate_signals(closes, known)

\* the values row.get('signal', 0) can give for a row
RowSignals(row) == IF row.signal = Pending THEN Signals ELSE {row.signal}

(***************************************************************************)
(* BacktestEngine.run_backtest.                                            *)
(***************************************************************************)
\* available_cash and shares_to_buy of a BUY
\* faulty variant: no cash is kept as a buffer
AvailableCashWithoutBuffer(c) == c
AvailableCash(c) == FMul(c, Frac(95, 100))
\* faulty variant: the commission is left out of the price of a share
SharesToBuyWithoutCommission(c, current_price, comm) ==
    TruncInt(FDiv(AvailableCash(c), current_price))
SharesToBuy(c, current_price, comm) ==
    TruncInt(FDiv(AvailableCash(c), FMul(current_price, FAdd(One, comm))))

\* faulty variant: the commission is charged twice on a purchase
BuyCostCommissionTwice(shares_to_buy, current_price, comm) ==
    FMul(FMul(Num(shares_to_buy), current_price), FAdd(One, FMul(Num(2), comm)))
BuyCost(shares_to_buy, current_price, comm) ==
    FMul(FMul(Num(shares_to_buy), current_price), FAdd(One, comm))

\* faulty variant: the sale pays no commission
SellProceedsWithoutCommission(shares_to_sell, current_price, comm) ==
    FMul(Num(shares_to_sell), current_price)
SellProceeds(shares_to_sell, current_price, comm) ==
    FMul(FMul(Num(shares_to_sell), current_price), FSub(One, comm))

PortfolioValue(c, h, current_price) == FAdd(c, FMul(Num(h), current_price))

\* faulty variant: the return is taken against the current value
DailyReturnOverCurrent(current_value, prev_value) ==
    FDiv(FSub(current_value, prev_value), current_value)
DailyReturn(current_value, prev_value) ==
    FDiv(FSub(current_value, prev_value), prev_value)

BuyTrade(date, current_price, shares_to_buy, cost, comm) ==
    [date |-> date, action |-> "BUY", price |-> current_price,
     quantity |-> shares_to_buy, value |-> cost, commission |-> FMul(cost, comm)]

SellTrade(date, current_price, shares_to_sell, proceeds, comm) ==
    [date |-> date, action |-> "SELL", price |-> current_price,
     quantity |-> shares_to_sell, value |-> proceeds,
     commission |-> FMul(proceeds, comm)]

\* the signal test of the BUY branch and of the SELL branch
\* faulty variant: the signal is tested for truth, and a null signal is true
BuySignalTruthy(signal, h) == signal # Num(0) /\ signal # Num(-1) /\ h = 0
\* faulty variant: the open position is not looked at
BuySignalAnyHoldings(signal, h) == FEq(signal, Num(1))
BuySignal(signal, h) == FEq(signal, Num(1)) /\ h = 0
\* faulty variant: an open position is sold on every signal that is not a BUY
SellSignalUnlessBuy(signal, h) == ~FEq(signal, Num(1)) /\ h > 0
SellSignal(signal, h) == FEq(signal, Num(-1)) /\ h > 0

\* the second pass over the trades: a SELL right after a BUY gets its pnl
\* faulty variant: the prices are subtracted the wrong way round
TradePnlSwapped(buy, sell) == FMul(FSub(buy.price, sell.price), Num(sell.quantity))
TradePnl(buy, sell) == FMul(FSub(sell.price, buy.price), Num(sell.quantity))
AssignPnl(ts) ==
    [k \in 1..Len(ts) |->
        IF k > 1 /\ ts[k].action = "SELL" /\ ts[k - 1].action = "BUY"
        THEN ("pnl" :> TradePnl(ts[k - 1], ts[k])) @@ ts[k]
        ELSE ts[k]]

Init ==
    /\ DefaultRiskSettings
    /\ NothingEarlier
    /\ initial_capital \in InitialCapitals
    /\ commission \in Commissions
    /\ data \in BarSeries
    /\ strategy \in Strategies
    /\ pc = "call"
    /\ signal_data = <<>>
    /\ i = 0
    /\ cash = Zero
    /\ holdings = 0
    /\ trades = <<>>
    /\ equity_curve = <<>>
    /\ prev_portfolio_value = Unbound
    /\ current_portfolio_value = Unbound
    /\ result = [status |-> "none"]
    /\ metrics = [name |-> "none"]

\* faulty variant: the portfolio and the logs are kept from call to call
GenerateSignalsKeepingPortfolio ==
    /\ pc = "call"
    /\ signal_data' = generate_signals(strategy, data, signal_data)
    /\ prev_portfolio_value' = initial_capital
    /\ i' = 0
    /\ pc' = "loop"
    /\ UNCHANGED <<self, earlier, returned, data, strategy, cash, holdings, trades,
                   equity_curve, current_portfolio_value, result, metrics>>
\* lines 24-38: the signals, and the portfolio of this run
GenerateSignals ==
    /\ pc = "call"
    /\ signal_data' = generate_signals(strategy, data, signal_data)
    /\ cash' = initial_capital
    /\ holdings' = 0
    /\ trades' = <<>>
    /\ equity_curve' = <<>>
    /\ prev_portfolio_value' = initial_capital
    /\ i' = 0
    /\ pc' = "loop"
    /\ UNCHANGED <<self, earlier, returned, data, strategy,
                   current_portfolio_value, result, metrics>>

\* lines 40-97: one iteration of the loop, on row i + 1
ProcessBar ==
    /\ pc = "loop"
    /\ i < Len(signal_data)
    /\ \E signal \in RowSignals(signal_data[i + 1]) :
        LET row == [signal_data[i + 1] EXCEPT !.signal = signal]
            date == row.date
            current_price == row.close
            shares_to_buy == SharesToBuy(cash, current_price, commission)
            cost == BuyCost(shares_to_buy, current_price, commission)
            shares_to_sell == holdings
            proceeds == SellProceeds(shares_to_sell, current_price, commission)
            buys == BuySignal(signal, holdings) /\ shares_to_buy > 0
            sells == ~BuySignal(signal, holdings) /\ SellSignal(signal, holdings)
            new_cash == IF buys THEN FSub(cash, cost)
                        ELSE IF sells THEN FAdd(cash, proceeds)
                        ELSE cash
            new_holdings == IF buys THEN holdings + shares_to_buy
                            ELSE IF sells THEN 0
                            ELSE holdings
            current_value == PortfolioValue(new_cash, new_holdings, current_price)
            daily_return == DailyReturn(current_value, prev_portfolio_value)
        IN  /\ signal_data' = [signal_data EXCEPT ![i + 1] = row]
            /\ cash' = new_cash
            /\ holdings' = new_holdings
            /\ trades' =
                IF buys
                THEN Append(trades, BuyTrade(date, current_price, shares_to_buy,
                                             cost, commission))
                ELSE IF sells
                THEN Append(trades, SellTrade(date, current_price, shares_to_sell,
                                              proceeds, commission))
                ELSE trades
            /\ current_portfolio_value' = current_value
            /\ equity_curve' = Append(equity_curve,
                    [date |-> date, portfolio_value |-> current_value,
                     cash |-> new_cash,
                     holdings_value |-> FMul(Num(new_holdings), current_price),
                     returns |-> daily_return])
            /\ prev_portfolio_value' = current_value
    /\ i' = i + 1
    /\ UNCHANGED <<self, earlier, returned, data, strategy, pc, result, metrics>>

\* lines 100-101 on an empty equity_curve: pd.DataFrame([]) has no 'date'
\* column, and set_index('date') raises KeyError
RaiseKeyError ==
    /\ pc = "loop"
    /\ i = Len(signal_data)
    /\ equity_curve = <<>>
    /\ pc' = "raised"
    /\ result' = [status |-> "raised", error |-> "KeyError"]
    /\ UNCHANGED <<self, earlier, returned, data, strategy, signal_data, i,
                   cash, holdings, trades, equity_curve, prev_portfolio_value,
                   current_portfolio_value, metrics>>

\* lines 100-117: the frame, the pnl of the trades, and the result
ReturnResult ==
    /\ pc = "loop"
    /\ i = Len(signal_data)
    /\ equity_curve # <<>>
    /\ trades' = AssignPnl(trades)
    /\ result' = [status |-> "returned",
                  equity_curve |-> equity_curve,
                  trades |-> AssignPnl(trades),
                  final_portfolio_value |-> current_portfolio_value,
                  initial_capital |-> initial_capital]
    /\ pc' = "done"
    /\ UNCHANGED <<self, earlier, returned, data, strategy, signal_data, i,
                   cash, holdings, equity_curve, prev_portfolio_value,
                   current_portfolio_value, metrics>>

(***************************************************************************)
(* PerformanceMetrics.  An accessor reads the BacktestResult it was built  *)
(* from.  A statistic that takes a square root is kept exact as            *)
(* [k |-> "root", n, sq]: the number n * sqrt(sq), n its sign.             *)
(***************************************************************************)
\* risk_free_rate = 0.02, and the 252 trading days of a year
RiskFreeRate == Frac(2, 100)
TradingDays == Num(252)

Root(sign, sq) == [k |-> "root", n |-> sign, d |-> 1, sq |-> sq]
AsRoot(x) == IF x.k = "root" THEN x ELSE Root(Sign(x), FMul(x, x))
\* np.sqrt
Sqrt(v) == IF IsNaN(v) THEN NaN ELSE Root(Sign(v), v)
\* x == 0 and x != 0 of a double or a root (a NaN is != 0)
IsZero(x) == ~IsNaN(x) /\ x.n = 0
\* products and quotients in which a root takes part
RootMul(x, y) ==
    IF IsNaN(x) \/ IsNaN(y) THEN NaN
    ELSE IF IsZero(x) \/ IsZero(y) THEN Root(0, Zero)
    ELSE Root(AsRoot(x).n * AsRoot(y).n, FMul(AsRoot(x).sq, AsRoot(y).sq))
RootDiv(x, y) ==
    IF IsNaN(x) \/ IsNaN(y) THEN NaN
    ELSE IF IsZero(y) THEN (IF IsZero(x) THEN NaN
                            ELSE IF x.n > 0 THEN PosInf ELSE NegInf)
    ELSE IF IsZero(x) THEN Root(0, Zero)
    ELSE Root(AsRoot(x).n * AsRoot(y).n, FDiv(AsRoot(x).sq, AsRoot(y).sq))

Column(rows, col) == [k \in 1..Len(rows) |-> rows[k][col]]
\* Series.dropna()
NotNull(x) == ~IsNaN(x)
DropNull(xs) == SelectSeq(xs, NotNull)
\* self.equity_curve['returns'].dropna()
ReturnsOf(r) == DropNull(Column(r.equity_curve, "returns"))

\* Series.sum(): the sum of the halves (an exact sum is the same in any order)
RECURSIVE SumSeq(_)
SumSeq(xs) ==
    IF xs = <<>> THEN Zero
    ELSE IF Len(xs) = 1 THEN xs[1]
    ELSE LET half == Len(xs) \div 2
         IN  FAdd(SumSeq(SubSeq(xs, 1, half)), SumSeq(SubSeq(xs, half + 1, Len(xs))))
\* Series.mean(): null on an empty series
Mean(xs) == IF xs = <<>> THEN NaN ELSE FDiv(SumSeq(xs), Num(Len(xs)))
\* the square of Series.std(), the sample deviation: null under two values
Variance(xs) ==
    IF Len(xs) < 2 THEN NaN
    ELSE LET m == Mean(xs)
             sq == [k \in 1..Len(xs) |-> FMul(FSub(xs[k], m), FSub(xs[k], m))]
         IN  FDiv(SumSeq(sq), Num(Len(xs) - 1))
Std(xs) == Sqrt(Variance(xs))

IsNegative(x) == FLt(x, Zero)
NegativeReturns(xs) == SelectSeq(xs, IsNegative)

\* Series.min(), nulls skipped: null when nothing is left
RECURSIVE MinSeq(_)
MinSeq(xs) ==
    IF xs = <<>> THEN NaN
    ELSE LET rest == MinSeq(Tail(xs))
         IN  IF IsNaN(Head(xs)) THEN rest
             ELSE IF IsNaN(rest) \/ FLt(Head(xs), rest) THEN Head(xs)
             ELSE rest

\* portfolio_values.expanding().max() at row k: the largest of rows 1..k, the
\* larger of the largest of each half
RECURSIVE MaxOfRows(_, _, _)
MaxOfRows(values, from, to) ==
    IF from = to THEN values[from]
    ELSE LET middle == (from + to) \div 2
             low == MaxOfRows(values, from, middle)
             high == MaxOfRows(values, middle + 1, to)
         IN  IF FGt(high, low) THEN high ELSE low
Peak(values, k) == MaxOfRows(values, 1, k)

\* the values in ascending order
RECURSIVE Insert(_, _)
Insert(x, sorted) ==
    IF sorted = <<>> THEN <<x>>
    ELSE IF FLe(x, Head(sorted)) THEN <<x>> \o sorted
    ELSE <<Head(sorted)>> \o Insert(x, Tail(sorted))
RECURSIVE Sorted(_)
Sorted(xs) == IF xs = <<>> THEN <<>> ELSE Insert(Head(xs), Sorted(Tail(xs)))

\* np.percentile(xs, q), q in percent, xs not empty: linear interpolation
\* between the two order statistics around position (n - 1) * q / 100
Percentile(xs, q) ==
    LET sorted == Sorted(xs)
        pos == FMul(Num(Len(xs) - 1), FDiv(q, Num(100)))
        lo == TruncInt(pos)
        frac == FSub(pos, Num(lo))
    IN  IF lo + 2 > Len(xs) THEN sorted[lo + 1]
        ELSE FAdd(sorted[lo + 1], FMul(frac, FSub(sorted[lo + 2], sorted[lo + 1])))

calculate_total_return_pct(r) ==
    FMul(FDiv(FSub(r.final_portfolio_value, r.initial_capital), r.initial_capital),
         Num(100))

\* faulty variant: the first snapshot's return is left out of the statistics
ReturnsOfAllButFirst(r) ==
    IF r.equity_curve = <<>> THEN <<>>
    ELSE DropNull(Tail(Column(r.equity_curve, "returns")))
\* the returns the statistics are computed over
StatReturns(r) == ReturnsOf(r)

calculate_sharpe_ratio(r, risk_free_rate) ==
    LET returns == StatReturns(r)
    IN  IF Len(returns) = 0 \/ IsZero(Std(returns)) THEN Zero
        ELSE LET excess_returns == FSub(Mean(returns), FDiv(risk_free_rate, TradingDays))
             IN  RootMul(RootDiv(excess_returns, Std(returns)), Sqrt(TradingDays))

calculate_max_drawdown(r) ==
    LET portfolio_values == Column(r.equity_curve, "portfolio_value")
        drawdown == [k \in 1..Len(portfolio_values) |->
                        FDiv(FSub(portfolio_values[k], Peak(portfolio_values, k)),
                             Peak(portfolio_values, k))]
    IN  FMul(FAbs(MinSeq(drawdown)), Num(100))

\* t.get('pnl', 0)
PnlOf(t) == IF "pnl" \in DOMAIN t THEN t.pnl ELSE Zero
IsProfit(t) == FGt(PnlOf(t), Zero)
IsLoss(t) == FLt(PnlOf(t), Zero)
HasPnl(t) == "pnl" \in DOMAIN t
GrossProfit(ts) == SumSeq(Column(SelectSeq(ts, IsProfit), "pnl"))
GrossLoss(ts) ==
    LET losing == SelectSeq(ts, IsLoss)
    IN  SumSeq([k \in 1..Len(losing) |-> FAbs(losing[k].pnl)])

calculate_win_rate(r) ==
    LET profitable_trades == SelectSeq(r.trades, IsProfit)
        total_trades == Len(SelectSeq(r.trades, HasPnl))
    IN  IF total_trades = 0 THEN Zero
        ELSE FMul(FDiv(Num(Len(profitable_trades)), Num(total_trades)), Num(100))

calculate_profit_factor(r) ==
    LET gross_profit == GrossProfit(r.trades)
        gross_loss == GrossLoss(r.trades)
    IN  IF FEq(gross_loss, Zero)
        THEN (IF FGt(gross_profit, Zero) THEN PosInf ELSE Zero)
        ELSE FDiv(gross_profit, gross_loss)

calculate_calmar_ratio(r) ==
    LET annual_return == calculate_total_return_pct(r)
        max_dd == calculate_max_drawdown(r)
    IN  IF FNe(max_dd, Zero) THEN FDiv(annual_return, max_dd) ELSE Zero

calculate_sortino_ratio(r, risk_free_rate) ==
    LET returns == StatReturns(r)
        negative_returns == NegativeReturns(returns)
        downside_std == RootMul(Std(negative_returns), Sqrt(TradingDays))
        excess_return == FSub(FMul(Mean(returns), TradingDays), risk_free_rate)
    IN  IF Len(returns) = 0 THEN Zero
        ELSE IF Len(negative_returns) = 0
        THEN (IF FGt(Mean(returns), Zero) THEN PosInf ELSE Zero)
        ELSE IF ~IsZero(downside_std) THEN RootDiv(excess_return, downside_std)
        ELSE Zero

calculate_var(r, confidence_level) ==
    LET returns == StatReturns(r)
    IN  IF Len(returns) = 0 THEN Zero
        ELSE Percentile(returns, FMul(confidence_level, Num(100)))

\* a benchmark_returns argument: None, or a series of [date, value] rows
NoBenchmark == [given |-> FALSE, series |-> <<>>]
Benchmark(series) == [given |-> TRUE, series |-> series]
\* the benchmarks tried on a result: none, an empty one, and 0.0 on every date
\* of the equity curve but the first `skip`
FlatBenchmark(r, skip) ==
    Benchmark([k \in 1..(Len(r.equity_curve) - skip) |->
                  [date |-> r.equity_curve[k + skip].date, value |-> Zero]])
Benchmarks(r) ==
    {NoBenchmark, Benchmark(<<>>), FlatBenchmark(r, 0), FlatBenchmark(r, 1)}

\* Series.tail(n)
TailOf(xs, n) == SubSeq(xs, Len(xs) - n + 1, Len(xs))
\* returns - benchmark_returns: the series are aligned on their index, and a
\* date that only one of them has gives a null, which mean and std skip
ActiveReturns(rs, bs) ==
    LET paired == SelectSeq(rs, LAMBDA x : \E k \in 1..Len(bs) : bs[k].date = x.date)
        Of(date) == bs[CHOOSE k \in 1..Len(bs) : bs[k].date = date].value
    IN  DropNull([k \in 1..Len(paired) |-> FSub(paired[k].value, Of(paired[k].date))])

calculate_information_ratio(r, benchmark_returns) ==
    LET rows == SelectSeq(r.equity_curve, LAMBDA x : ~IsNaN(x.returns))
        returns == [k \in 1..Len(rows) |-> [date |-> rows[k].date, value |-> rows[k].returns]]
        bench == benchmark_returns.series
        min_length == IF Len(returns) < Len(bench) THEN Len(returns) ELSE Len(bench)
        active_returns == ActiveReturns(TailOf(returns, min_length), TailOf(bench, min_length))
        tracking_error == RootMul(Std(active_returns), Sqrt(TradingDays))
    IN  IF ~benchmark_returns.given THEN Zero
        ELSE IF Len(returns) = 0 \/ Len(bench) = 0 THEN Zero
        ELSE IF IsZero(tracking_error) THEN Zero
        ELSE RootDiv(FMul(Mean(active_returns), TradingDays), tracking_error)

\* index.to_period('M') of a timestamp; a timestamp is 100 * month + day, and
\* the bar numbers 1..n of a run all fall in one month
MonthOf(date) == date \div 100
\* equity_curve['month'].unique()
MonthsOf(rows) == {MonthOf(rows[k].date) : k \in 1..Len(rows)}
\* equity_curve[equity_curve['month'] == month]
MonthData(rows, month) == SelectSeq(rows, LAMBDA x : MonthOf(x.date) = month)
\* faulty variant: a month of one snapshot is reported too
AnySnapshots(month_data) == Len(month_data) >= 1
\* len(month_data) > 1
EnoughSnapshots(month_data) == Len(month_data) > 1
MonthlyReturn(month_data) ==
    LET start_value == month_data[1].portfolio_value
        end_value == month_data[Len(month_data)].portfolio_value
    IN  FMul(FDiv(FSub(end_value, start_value), start_value), Num(100))
calculate_monthly_returns(r) ==
    [month \in {m \in MonthsOf(r.equity_curve) :
                    EnoughSnapshots(MonthData(r.equity_curve, m))} |->
        MonthlyReturn(MonthData(r.equity_curve, month))]

\* An accessor is called on a returned result, and `metrics` keeps its value.
\* The accessors change nothing they read, so the model follows one call on
\* each result.
Accessor(name, value) ==
    /\ result.status = "returned"
    /\ metrics.name = "none"
    /\ metrics' = [name |-> name, value |-> value]
    /\ UNCHANGED <<self, earlier, returned, data, strategy, pc, signal_data, i,
                   cash, holdings, trades, equity_curve, prev_portfolio_value,
                   current_portfolio_value, result>>

CalculateSharpeRatio == Accessor("sharpe_ratio", calculate_sharpe_ratio(result, RiskFreeRate))
CalculateMaxDrawdown == Accessor("max_drawdown", calculate_max_drawdown(result))
CalculateWinRate == Accessor("win_rate", calculate_win_rate(result))
CalculateProfitFactor == Accessor("profit_factor", calculate_profit_factor(result))
CalculateCalmarRatio == Accessor("calmar_ratio", calculate_calmar_ratio(result))
CalculateSortinoRatio == Accessor("sortino_ratio", calculate_sortino_ratio(result, RiskFreeRate))
CalculateVar == Accessor("var", calculate_var(result, Frac(5, 100)))
CalculateMonthlyReturns ==
    Accessor("monthly_returns", calculate_monthly_returns(result))
CalculateInformationRatio ==
    /\ result.status = "returned"
    /\ metrics.name = "none"
    /\ \E benchmark_returns \in Benchmarks(result) :
           metrics' = [name |-> "information_ratio",
                       benchmark_returns |-> benchmark_returns,
                       value |-> calculate_information_ratio(result, benchmark_returns)]
    /\ UNCHANGED <<self, earlier, returned, data, strategy, pc, signal_data, i,
                   cash, holdings, trades, equity_curve, prev_portfolio_value,
                   current_portfolio_value, result>>

\* A run of the engine, and on its result the accessors over trades and
\* portfolio values.  The return statistics multiply the denominators of the
\* returns beyond 32-bit integers on these results; SpecMetrics exercises them
\* on results built by hand.
Next ==
    \/ GenerateSignals
    \/ ProcessBar
    \/ RaiseKeyError
    \/ ReturnResult
    \/ CalculateMaxDrawdown
    \/ CalculateWinRate
    \/ CalculateProfitFactor

Spec == Init /\ [][Next]_vars

(***************************************************************************)
(* Two calls of run_backtest on one engine, with the same bars and the     *)
(* same strategy: after the first call has returned or raised, the caller  *)
(* keeps what it got and calls again.                                      *)
(***************************************************************************)
InitRepeat ==
    /\ Init
    /\ initial_capital = Num(TopCapital)
    /\ commission = Frac(1, 10)

CallAgain ==
    /\ pc \in {"done", "raised"}
    /\ earlier.status = "none"
    /\ earlier' = result
    /\ result' = [status |-> "none"]
    /\ pc' = "call"
    /\ UNCHANGED <<self, returned, data, strategy, signal_data, i, cash, holdings,
                   trades, equity_curve, prev_portfolio_value,
                   current_portfolio_value, metrics>>

NextRepeat ==
    \/ GenerateSignals
    \/ ProcessBar
    \/ RaiseKeyError
    \/ ReturnResult
    \/ CallAgain

SpecRepeat == InitRepeat /\ [][NextRepeat]_vars

(***************************************************************************)
(* PerformanceMetrics on a BacktestResult built by hand: an equity curve   *)
(* of 1..MaxSnapshots snapshots and a trade log.                           *)
(***************************************************************************)
HandCapital == Num(10000)
\* the value and return of a hand-made snapshot
HandPoints ==
    {<<Num(10000), NaN>>, <<Num(10000), Zero>>, <<Num(11000), Frac(1, 10)>>,
     <<Num(9900), Frac(-1, 10)>>, <<Num(9900), Zero>>}
HandSnapshot(date, point) ==
    [date |-> date, portfolio_value |-> point[1], cash |-> point[1],
     holdings_value |-> Zero, returns |-> point[2]]
HandCurves ==
    UNION {{[k \in 1..len |-> HandSnapshot(k, points[k])] :
                points \in [1..len -> HandPoints]} : len \in 1..MaxSnapshots}
\* one share bought at 100 and sold at 110, and one bought at 100 and sold at 90
HandWin ==
    <<BuyTrade(1, Num(100), 1, Num(100), Zero), SellTrade(2, Num(110), 1, Num(110), Zero)>>
HandLoss ==
    <<BuyTrade(3, Num(100), 1, Num(100), Zero), SellTrade(4, Num(90), 1, Num(90), Zero)>>
HandTradeLogs ==
    {<<>>, AssignPnl(HandWin), AssignPnl(HandLoss), AssignPnl(HandWin \o HandLoss)}
HandResult(curve, log) ==
    [status |-> "returned", equity_curve |-> curve, trades |-> log,
     final_portfolio_value |-> curve[Len(curve)].portfolio_value,
     initial_capital |-> HandCapital]

InitMetrics ==
    /\ DefaultRiskSettings
    /\ NothingEarlier
    /\ result \in {HandResult(curve, log) : curve \in HandCurves, log \in HandTradeLogs}
    /\ metrics = [name |-> "none"]
    /\ initial_capital = HandCapital
    /\ commission = Zero
    /\ data = <<>>
    /\ strategy = [kind |-> "Generic", fast_period |-> 0, slow_period |-> 0]
    /\ pc = "none"
    /\ signal_data = <<>>
    /\ i = 0
    /\ cash = Zero
    /\ holdings = 0
    /\ trades = <<>>
    /\ equity_curve = <<>>
    /\ prev_portfolio_value = Unbound
    /\ current_portfolio_value = Unbound

NextMetrics ==
    \/ CalculateSharpeRatio
    \/ CalculateMaxDrawdown
    \/ CalculateWinRate
    \/ CalculateProfitFactor
    \/ CalculateCalmarRatio
    \/ CalculateSortinoRatio
    \/ CalculateVar
    \/ CalculateInformationRatio

SpecMetrics == InitMetrics /\ [][NextMetrics]_vars

(***************************************************************************)
(* calculate_monthly_returns on a BacktestResult built by hand: an equity  *)
(* curve of 1..MaxSnapshots snapshots on ascending days of three months.   *)
(***************************************************************************)
HandDates == {100 * month + day : month \in 1..3, day \in 1..2}
HandValues == {Num(9900), Num(10000), Num(11000)}
DatedCurve(dates, values) ==
    [k \in 1..Len(dates) |->
        [date |-> dates[k], portfolio_value |-> values[k], cash |-> values[k],
         holdings_value |-> Zero,
         returns |-> DailyReturn(values[k], IF k = 1 THEN HandCapital ELSE values[k - 1])]]
DatedCurves ==
    UNION {{DatedCurve(dates, values) :
                dates \in {ds \in [1..len -> HandDates] :
                              \A k \in 1..(len - 1) : ds[k] < ds[k + 1]},
                values \in [1..len -> HandValues]} : len \in 1..MaxSnapshots}

InitMonthly ==
    /\ DefaultRiskSettings
    /\ NothingEarlier
    /\ result \in {HandResult(curve, <<>>) : curve \in DatedCurves}
    /\ metrics = [name |-> "none"]
    /\ initial_capital = HandCapital
    /\ commission = Zero
    /\ data = <<>>
    /\ strategy = [kind |-> "Generic", fast_period |-> 0, slow_period |-> 0]
    /\ pc = "none"
    /\ signal_data = <<>>
    /\ i = 0
    /\ cash = Zero
    /\ holdings = 0
    /\ trades = <<>>
    /\ equity_curve = <<>>
    /\ prev_portfolio_value = Unbound
    /\ current_portfolio_value = Unbound

NextMonthly == CalculateMonthlyReturns

SpecMonthly == InitMonthly /\ [][NextMonthly]_vars

(***************************************************************************)
(* BollingerBandStrategy.generate_signals.  A band is kept exact as        *)
(* [k |-> "band", ma, width]: the number ma + width, width a root.         *)
(***************************************************************************)
\* data['close'].rolling(window).std() at row t: null until `window` rows are
\* seen, and null for a window of one row
RollingStd(closes, window, t) ==
    IF t < window THEN NaN
    ELSE Std([k \in 1..window |-> Num(closes[t - window + k])])

\* ma + width and ma - width, width = std * std_dev: null when ma or std is
Band(ma, width) ==
    IF IsNaN(ma) \/ IsNaN(width) THEN NaN
    ELSE [k |-> "band", n |-> width.n, d |-> 1, ma |-> ma, width |-> width]
RootNeg(r) == IF IsNaN(r) THEN NaN ELSE [r EXCEPT !.n = -r.n]

\* x <= r and x >= r of a double x and a root r
NumLeRoot(x, r) ==
    IF Sign(x) <= 0 /\ r.n >= 0 THEN TRUE
    ELSE IF Sign(x) > 0 /\ r.n <= 0 THEN FALSE
    ELSE IF Sign(x) > 0 THEN FLe(FMul(x, x), r.sq)
    ELSE FGe(FMul(x, x), r.sq)
NumGeRoot(x, r) == NumLeRoot(FNeg(x), RootNeg(r))
\* close <= band and close >= band: false on a null
CloseLeBand(close, band) ==
    ~IsNaN(close) /\ ~IsNaN(band) /\ NumLeRoot(FSub(close, band.ma), band.width)
CloseGeBand(close, band) ==
    ~IsNaN(close) /\ ~IsNaN(band) /\ NumGeRoot(FSub(close, band.ma), band.width)

\* the signal column: 0, then 1 at or under the lower band, then -1 at or over
\* the upper band
\* faulty variant: a bar at or under the lower band stays a BUY
BollingerSignalBuyFirst(close, lower_band, upper_band) ==
    IF CloseLeBand(close, lower_band) THEN Num(1)
    ELSE IF CloseGeBand(close, upper_band) THEN Num(-1)
    ELSE Num(0)
BollingerSignal(close, lower_band, upper_band) ==
    IF CloseGeBand(close, upper_band) THEN Num(-1)
    ELSE IF CloseLeBand(close, lower_band) THEN Num(1)
    ELSE Num(0)

BollingerRow(closes, period, std_dev, t) ==
    LET ma == RollingMean(closes, period, t)
        std == RollingStd(closes, period, t)
        upper_band == Band(ma, RootMul(std, std_dev))
        lower_band == Band(ma, RootNeg(RootMul(std, std_dev)))
    IN  [date |-> t, close |-> Num(closes[t]), ma |-> ma, std |-> std,
         upper_band |-> upper_band, lower_band |-> lower_band,
         signal |-> BollingerSignal(Num(closes[t]), lower_band, upper_band)]

BollingerBandStrategy_generate_signals(closes, period, std_dev) ==
    DropNa([t \in 1..Len(closes) |-> BollingerRow(closes, period, std_dev, t)])

\* strategy.generate_signals(data) of any strategy object
generate_signals_of(s, closes) ==
    IF s.kind = "BollingerBandStrategy"
    THEN BollingerBandStrategy_generate_signals(closes, s.period, s.std_dev)
    ELSE generate_signals(s, closes, <<>>)

(***************************************************************************)
(* The strategies on their own: generate_signals is called on a bar        *)
(* series, and signal_data keeps the annotated series it returns.          *)
(***************************************************************************)
\* the closes of the crossover scenario
ScenarioCloses == <<10, 10, 10, 12, 14, 16, 8, 8, 8>>
\* closes that turn on every bar, so that the MACD line crosses its signal
\* line again and again
ZigzagCloses == <<1, 2, 1, 2>>
SignalStrategies ==
    {[kind |-> "MovingAverageCrossover", fast_period |-> f, slow_period |-> s] :
        f \in 1..MaxPeriod, s \in 1..MaxPeriod} \cup
    {[kind |-> "MACDStrategy", fast_period |-> f, slow_period |-> s,
      signal_period |-> p] :
        f \in 1..MaxPeriod, s \in 1..MaxPeriod, p \in 1..MaxPeriod} \cup
    {[kind |-> "BollingerBandStrategy", period |-> p, std_dev |-> k] :
        p \in 1..MaxPeriod, k \in {Frac(1, 2), Num(1), Num(2)}}

InitSignals ==
    /\ DefaultRiskSettings
    /\ NothingEarlier
    /\ strategy \in SignalStrategies
    /\ \/ data \in BarSeries
       \/ data = ScenarioCloses /\ strategy.kind = "MovingAverageCrossover"
       \/ data = ZigzagCloses /\ strategy.kind = "MACDStrategy"
    /\ pc = "strategy"
    /\ signal_data = <<>>
    /\ initial_capital = Num(TopCapital)
    /\ commission = Zero
    /\ i = 0
    /\ cash = Zero
    /\ holdings = 0
    /\ trades = <<>>
    /\ equity_curve = <<>>
    /\ prev_portfolio_value = Unbound
    /\ current_portfolio_value = Unbound
    /\ result = [status |-> "none"]
    /\ metrics = [name |-> "none"]

\* strategy.generate_signals(data)
StrategyGenerateSignals ==
    /\ pc = "strategy"
    /\ signal_data' = generate_signals_of(strategy, data)
    /\ pc' = "signals"
    /\ UNCHANGED <<self, earlier, returned, data, strategy, i, cash, holdings,
                   trades, equity_curve, prev_portfolio_value,
                   current_portfolio_value, result, metrics>>

NextSignals == StrategyGenerateSignals

SpecSignals == InitSignals /\ [][NextSignals]_vars

(***************************************************************************)
(* The risk helpers of the engine, called on an engine of any risk         *)
(* settings: calculate_position_size, check_stop_loss, check_take_profit.  *)
(* `returned` keeps the arguments and the value of the call.               *)
(***************************************************************************)
\* volatility = None
NoVolatility == [k |-> "none", n |-> 0, d |-> 1]
Min2(a, b) == IF a < b THEN a ELSE b
Max2(a, b) == IF a > b THEN a ELSE b

\* `volatility and volatility > 0`: None and 0.0 are false, and a null is not > 0
\* faulty variant: the risk-based size is never looked at
UseRiskSizingNever(volatility) == FALSE
UseRiskSizing(volatility) ==
    /\ volatility # NoVolatility
    /\ ~IsZero(volatility)
    /\ FGt(volatility, Zero)

calculate_position_size(portfolio_value, price, volatility) ==
    LET max_dollar_amount == FMul(portfolio_value, max_position_size)
        basic_shares == TruncInt(FDiv(max_dollar_amount, price))
        max_risk_amount == FMul(portfolio_value, max_risk_per_trade)
        risk_per_share == FMul(price, stop_loss_pct)
        risk_based_shares ==
            IF FGt(risk_per_share, Zero)
            THEN TruncInt(FDiv(max_risk_amount, risk_per_share))
            ELSE basic_shares
        shares == IF UseRiskSizing(volatility)
                  THEN Min2(basic_shares, risk_based_shares)
                  ELSE basic_shares
    IN  Max2(0, shares)

\* the 30 of `len(returns) < 30` and of rolling(window=30)
RiskWindow == 30
\* faulty variant: exactly 30 observations are still too few
TooFewObservationsAtWindow(returns) == Len(returns) <= RiskWindow
TooFewObservations(returns) == Len(returns) < RiskWindow

\* Of a series of at least RiskWindow values, rolling(window=30) at the last row
LastWindow(returns) == TailOf(returns, RiskWindow)

calculate_portfolio_risk_metrics(curve) ==
    LET returns == DropNull(Column(curve, "returns"))
        rolling_vol == RootMul(Std(LastWindow(returns)), Sqrt(TradingDays))
        rolling_sharpe == RootDiv(FMul(Mean(LastWindow(returns)), TradingDays), rolling_vol)
        portfolio_values == Column(curve, "portfolio_value")
        last == portfolio_values[Len(portfolio_values)]
        peak == Peak(portfolio_values, Len(portfolio_values))
        current_drawdown == FMul(FDiv(FSub(last, peak), peak), Num(100))
    IN  IF TooFewObservations(returns) THEN <<>>
        ELSE [current_volatility |-> rolling_vol,
              current_sharpe |-> rolling_sharpe,
              current_drawdown |-> current_drawdown,
              portfolio_value |-> last]

\* The equity curves the helper is called on: `lead` snapshots with a null
\* return, then the points of a pattern over and over, up to `len` snapshots.
MaxLead == 2
Patterns == UNION {[1..n -> {pt \in HandPoints : ~IsNaN(pt[2])}] : n \in 1..2}
RiskCurve(len, lead, pattern) ==
    [k \in 1..len |->
        HandSnapshot(k, IF k <= lead THEN <<HandCapital, NaN>>
                        ELSE pattern[((k - lead - 1) % Len(pattern)) + 1])]
RiskCurves ==
    {RiskCurve(len, lead, pattern) :
        len \in (RiskWindow - 1)..(RiskWindow + 1), lead \in 0..MaxLead,
        pattern \in Patterns}

\* the settings an engine is constructed with, and the arguments of the calls
PositionSizes == {Frac(1, 10), Frac(1, 2)}
StopLosses == {Zero, Frac(5, 100), Frac(1, 2)}
TakeProfits == {Frac(15, 100), Frac(1, 2)}
RisksPerTrade == {Frac(2, 100), Frac(1, 10)}
PortfolioValues == {Zero, Num(TopCapital), Num(10 * TopCapital + 5)}
Prices == {Num(1), Num(3), Num(7)}
Volatilities == {NoVolatility, Zero, NaN, Frac(1, 5)}

InitRisk ==
    /\ initial_capital = Num(TopCapital)
    /\ commission = Frac(1, 1000)
    /\ max_position_size \in PositionSizes
    /\ stop_loss_pct \in StopLosses
    /\ take_profit_pct \in TakeProfits
    /\ max_risk_per_trade \in RisksPerTrade
    /\ open_positions = <<>>
    /\ NothingEarlier
    /\ data = <<>>
    /\ strategy = [kind |-> "Generic", fast_period |-> 0, slow_period |-> 0]
    /\ pc = "none"
    /\ signal_data = <<>>
    /\ i = 0
    /\ cash = Zero
    /\ holdings = 0
    /\ trades = <<>>
    /\ equity_curve = <<>>
    /\ prev_portfolio_value = Unbound
    /\ current_portfolio_value = Unbound
    /\ result = [status |-> "none"]
    /\ metrics = [name |-> "none"]

\* what a helper leaves alone: everything but the value it returns
HelperFrame ==
    UNCHANGED <<self, data, strategy, pc, signal_data, i, cash, holdings, trades,
                equity_curve, prev_portfolio_value, current_portfolio_value, result,
                earlier, metrics>>

CalculatePositionSize ==
    /\ returned.name = "none"
    /\ \E portfolio_value \in PortfolioValues, price \in Prices,
          volatility \in Volatilities :
           returned' = [name |-> "calculate_position_size",
                        portfolio_value |-> portfolio_value,
                        price |-> price,
                        volatility |-> volatility,
                        value |-> calculate_position_size(portfolio_value,
                                                          price, volatility)]
    /\ HelperFrame

CalculatePortfolioRiskMetrics ==
    /\ returned.name = "none"
    /\ \E curve \in RiskCurves :
           returned' = [name |-> "calculate_portfolio_risk_metrics",
                        equity_curve |-> curve,
                        value |-> calculate_portfolio_risk_metrics(curve)]
    /\ HelperFrame

NextRisk ==
    \/ CalculatePositionSize
    \/ CalculatePortfolioRiskMetrics

SpecRisk == InitRisk /\ [][NextRisk]_vars

(***************************************************************************)
(* A run of the engine during which the caller evaluates check_stop_loss   *)
(* or check_take_profit on the open position: the entry price is the price *)
(* of the BUY that opened it, the current price the close of the bar just  *)
(* processed.                                                              *)
(***************************************************************************)
check_stop_loss(entry_price, current_price, position_type) ==
    IF position_type = "long"
    THEN FGe(FDiv(FSub(entry_price, current_price), entry_price), stop_loss_pct)
    ELSE FGe(FDiv(FSub(current_price, entry_price), entry_price), stop_loss_pct)

check_take_profit(entry_price, current_price, position_type) ==
    IF position_type = "long"
    THEN FGe(FDiv(FSub(current_price, entry_price), entry_price), take_profit_pct)
    ELSE FGe(FDiv(FSub(entry_price, current_price), entry_price), take_profit_pct)

PositionTypes == {"long", "short"}
\* the position is open and a bar has been processed since the call began
PositionIsOpen == pc = "loop" /\ holdings > 0 /\ i >= 1 /\ trades # <<>>

CheckStopLoss ==
    /\ PositionIsOpen
    /\ returned.name = "none"
    /\ \E position_type \in PositionTypes :
           returned' = [name |-> "check_stop_loss",
                        entry_price |-> trades[Len(trades)].price,
                        current_price |-> signal_data[i].close,
                        position_type |-> position_type,
                        value |-> check_stop_loss(trades[Len(trades)].price,
                                                  signal_data[i].close, position_type)]
    /\ HelperFrame

CheckTakeProfit ==
    /\ PositionIsOpen
    /\ returned.name = "none"
    /\ \E position_type \in PositionTypes :
           returned' = [name |-> "check_take_profit",
                        entry_price |-> trades[Len(trades)].price,
                        current_price |-> signal_data[i].close,
                        position_type |-> position_type,
                        value |-> check_take_profit(trades[Len(trades)].price,
                                                    signal_data[i].close, position_type)]
    /\ HelperFrame

NextStops ==
    \/ GenerateSignals
    \/ ProcessBar
    \/ RaiseKeyError
    \/ ReturnResult
    \/ CheckStopLoss
    \/ CheckTakeProfit

SpecStops == InitRepeat /\ [][NextStops]_vars

(***************************************************************************)
(* Helpers of the properties.                                              *)
(***************************************************************************)
Running == pc \in {"loop", "done"}
\* HOLD: a signal that is 0 or null
IsHold(signal) == signal = Num(0) \/ IsNaN(signal)
IsBuy(signal) == signal = Num(1)
IsSell(signal) == signal = Num(-1)
AllHoldSoFar == \A k \in 1..i : IsHold(signal_data[k].signal)
CountAction(ts, action) == Cardinality({k \in 1..Len(ts) : ts[k].action = action})
\* the position in the equity curve of the snapshot of a date
SnapshotOf(date) == CHOOSE k \in 1..Len(equity_curve) : equity_curve[k].date = date
\* cash before the bar of snapshot k was processed, and after it
CashBefore(k) == IF k = 1 THEN initial_capital ELSE equity_curve[k - 1].cash
CashAfter(k) == equity_curve[k].cash
ValueBefore(k) == IF k = 1 THEN initial_capital ELSE equity_curve[k - 1].portfolio_value

(***************************************************************************)
(* C1.  While every signal read so far is HOLD (0 or null), no trade is    *)
(* appended, cash and holdings are as at the start, every equity snapshot  *)
(* is worth the initial capital, and the run returns final_portfolio_value *)
(* = initial_capital.                                                      *)
(***************************************************************************)
C1_AllHoldKeepsCapital ==
    (Running /\ AllHoldSoFar) =>
        /\ trades = <<>>
        /\ cash = initial_capital
        /\ holdings = 0
        /\ \A k \in 1..Len(equity_curve) :
               equity_curve[k].portfolio_value = initial_capital
        /\ pc = "done" =>
               /\ result.final_portfolio_value = initial_capital
               /\ result.trades = <<>>

C1_Witness ==
    /\ pc = "done"
    /\ AllHoldSoFar
    /\ initial_capital # Zero
    /\ \E k \in 1..i : signal_data[k].signal = Num(0)
    /\ \E k \in 1..i : IsNaN(signal_data[k].signal)

(***************************************************************************)
(* C2.  As claimed: for every commission rate >= 0 and initial capital     *)
(* >= 0, cash is >= 0 after every bar.                                     *)
(***************************************************************************)
C2_CashNeverNegative == Running => FGe(cash, Zero)

(***************************************************************************)
(* C2, amended.  For every commission rate in [0, 1] and initial capital   *)
(* >= 0, cash is >= 0 after every bar.                                     *)
(***************************************************************************)
C2_CashNeverNegativeUpToFullCommission ==
    (Running /\ FLe(commission, One)) => FGe(cash, Zero)

C2_Witness ==
    /\ pc = "done"
    /\ commission = One
    /\ CountAction(trades, "SELL") >= 1
    /\ holdings > 0

(***************************************************************************)
(* C3.  A BUY signal on a bar where holdings > 0 changes neither cash nor  *)
(* holdings and appends no trade; at most one position is open at a time;  *)
(* the BUY trades never outnumber the SELL trades by more than one.        *)
(***************************************************************************)
C3_OnePosition ==
    /\ CountAction(trades, "BUY") <= CountAction(trades, "SELL") + 1
    /\ holdings > 0 =>
           /\ trades # <<>>
           /\ trades[Len(trades)].action = "BUY"
           /\ holdings = trades[Len(trades)].quantity
    /\ holdings = 0 => CountAction(trades, "BUY") = CountAction(trades, "SELL")

C3_BuyWhileHoldingStep ==
    (pc = "loop" /\ i' = i + 1 /\ holdings > 0 /\ IsBuy(signal_data'[i'].signal)) =>
        (cash' = cash /\ holdings' = holdings /\ trades' = trades)

C3_BuyWhileHoldingIsNoOp == []C3_OnePosition /\ [][C3_BuyWhileHoldingStep]_vars

C3_Witness ==
    /\ i >= 3
    /\ \A k \in 1..i : IsBuy(signal_data[k].signal)
    /\ holdings > 0
    /\ Len(trades) = 1

(***************************************************************************)
(* C4.  When a BUY of quantity q at close p is followed in the trade log   *)
(* by a SELL at the same close p, the cash after the SELL is the cash      *)
(* before the BUY minus 2 * q * p * commission, and the SELL sells q.      *)
(***************************************************************************)
C4_RoundTripCostsTwoCommissions ==
    Running =>
        \A k \in 1..(Len(trades) - 1) :
            LET buy == trades[k]
                sell == trades[k + 1]
            IN  (buy.action = "BUY" /\ sell.action = "SELL" /\ buy.price = sell.price) =>
                    /\ sell.quantity = buy.quantity
                    /\ CashAfter(SnapshotOf(sell.date)) =
                           FSub(CashBefore(SnapshotOf(buy.date)),
                                FMul(Num(2), FMul(FMul(Num(buy.quantity), buy.price),
                                                  commission)))

C4_Witness ==
    /\ Running
    /\ commission = Frac(1, 10)
    /\ \E k \in 1..(Len(trades) - 1) :
           /\ trades[k].action = "BUY"
           /\ trades[k + 1].action = "SELL"
           /\ trades[k].price = trades[k + 1].price
           /\ trades[k + 1].date = trades[k].date + 1

(***************************************************************************)
(* C5.  The trade log alternates BUY, SELL, BUY, ... from a BUY; in the    *)
(* returned log every SELL has the quantity of the BUY before it and a     *)
(* pnl of (its price - that BUY's price) * quantity, and no BUY has a pnl. *)
(***************************************************************************)
C5_TradesAlternateWithPnl ==
    /\ \A k \in 1..Len(trades) :
           trades[k].action = (IF k % 2 = 1 THEN "BUY" ELSE "SELL")
    /\ pc = "done" =>
           /\ result.trades = trades
           /\ \A k \in 1..Len(trades) :
                  IF trades[k].action = "SELL"
                  THEN /\ "pnl" \in DOMAIN trades[k]
                       /\ trades[k].quantity = trades[k - 1].quantity
                       /\ trades[k].pnl =
                              FMul(FSub(trades[k].price, trades[k - 1].price),
                                   Num(trades[k].quantity))
                  ELSE "pnl" \notin DOMAIN trades[k]

C5_Witness ==
    /\ pc = "done"
    /\ Len(result.trades) = 3
    /\ FLt(result.trades[2].pnl, Zero)

(***************************************************************************)
(* C6.  One equity snapshot per processed bar, in bar order and taken      *)
(* after the bar's trade action: its value is cash + holdings * close of   *)
(* that bar, its return is taken against the snapshot before it (the       *)
(* first against initial_capital), and final_portfolio_value is the last   *)
(* snapshot's value.                                                       *)
(***************************************************************************)
C6_OneSnapshotPerBar ==
    Running =>
        /\ Len(equity_curve) = i
        /\ \A k \in 1..i :
               LET snap == equity_curve[k]
               IN  /\ snap.date = signal_data[k].date
                   /\ snap.portfolio_value = FAdd(snap.cash, snap.holdings_value)
                   /\ snap.returns =
                          FDiv(FSub(snap.portfolio_value, ValueBefore(k)), ValueBefore(k))
        /\ i > 0 =>
               /\ equity_curve[i].cash = cash
               /\ equity_curve[i].holdings_value =
                      FMul(Num(holdings), signal_data[i].close)
        /\ pc = "done" =>
               /\ i = Len(signal_data)
               /\ result.equity_curve = equity_curve
               /\ result.final_portfolio_value = equity_curve[i].portfolio_value

C6_Witness ==
    /\ pc = "done"
    /\ i >= 3
    /\ Len(trades) >= 2
    /\ FGt(equity_curve[2].returns, Zero)
    /\ FLt(equity_curve[3].returns, Zero)

(***************************************************************************)
(* C7.  When the bar series is shorter than the warm-up window of the      *)
(* moving-average strategy, run_backtest does not raise: it returns a      *)
(* result with no trades and an empty equity curve.                        *)
(***************************************************************************)
WarmUp(s) == IF s.fast_period > s.slow_period THEN s.fast_period ELSE s.slow_period
InsufficientData ==
    /\ strategy.kind = "MovingAverageCrossover"
    /\ Len(data) >= 1
    /\ Len(data) < WarmUp(strategy)
C7_InsufficientDataNeverRaises == InsufficientData => pc # "raised"

(***************************************************************************)
(* C8.  On a result with at least one equity snapshot, the Sharpe,         *)
(* Sortino, Calmar and information ratios and the profit factor are each   *)
(* a number or +infinity: never an undefined (NaN) value.                  *)
(***************************************************************************)
RatioNames ==
    {"sharpe_ratio", "sortino_ratio", "calmar_ratio", "profit_factor",
     "information_ratio"}
C8_RatiosAreDefined ==
    (metrics.name \in RatioNames /\ Len(result.equity_curve) >= 1) =>
        ~IsNaN(metrics.value)

(***************************************************************************)
(* C9.  On a result of run_backtest over a non-empty annotated series, the *)
(* win rate is in [0, 100], the profit factor is >= 0, or +infinity        *)
(* exactly when the gross loss is 0 and the gross profit is > 0, and the   *)
(* max drawdown is >= 0.                                                   *)
(***************************************************************************)
C9_MetricRanges ==
    (pc = "done" /\ Len(signal_data) >= 1) =>
        /\ metrics.name = "win_rate" =>
               FGe(metrics.value, Zero) /\ FLe(metrics.value, Num(100))
        /\ metrics.name = "profit_factor" =>
               /\ FGe(metrics.value, Zero)
               /\ metrics.value = PosInf <=>
                      /\ FEq(GrossLoss(result.trades), Zero)
                      /\ FGt(GrossProfit(result.trades), Zero)
        /\ metrics.name = "max_drawdown" => FGe(metrics.value, Zero)

(***************************************************************************)
(* C10.  As claimed: on the equity curve [10000, 11000, 9900, 9900] with   *)
(* returns [0, 0.10, -0.10, 0.0] the return statistics are computed over   *)
(* {0.10, -0.10, 0.0}, the first snapshot's return left out (a Sharpe      *)
(* ratio of -sqrt(1/6300), a VaR of -0.09), and the max drawdown is 10.    *)
(***************************************************************************)
IsRoundTripCurve ==
    /\ Column(result.equity_curve, "portfolio_value") =
           <<Num(10000), Num(11000), Num(9900), Num(9900)>>
    /\ Column(result.equity_curve, "returns") =
           <<Zero, Frac(1, 10), Frac(-1, 10), Zero>>

C10_StatisticsSkipFirstReturn ==
    IsRoundTripCurve =>
        /\ metrics.name = "sharpe_ratio" => metrics.value = Root(-1, Frac(1, 6300))
        /\ metrics.name = "var" => metrics.value = Frac(-9, 100)
        /\ metrics.name = "max_drawdown" => metrics.value = Num(10)

(***************************************************************************)
(* C10, amended.  On that equity curve the return statistics are computed  *)
(* over all four returns [0, 0.10, -0.10, 0.0], the first snapshot's       *)
(* included (a Sharpe ratio of -sqrt(1/4200), a VaR of -0.085), and the    *)
(* max drawdown is 10.                                                     *)
(***************************************************************************)
C10_StatisticsUseEveryReturn ==
    IsRoundTripCurve =>
        /\ metrics.name = "sharpe_ratio" => metrics.value = Root(-1, Frac(1, 4200))
        /\ metrics.name = "var" => metrics.value = Frac(-17, 200)
        /\ metrics.name = "max_drawdown" => metrics.value = Num(10)

C10_Witness == IsRoundTripCurve /\ metrics.name = "sharpe_ratio"

(***************************************************************************)
(* C11.  MovingAverageCrossover.generate_signals keeps exactly the bars on *)
(* which both moving averages are defined, in order, and gives each of     *)
(* them +1 exactly when the fast average of the closes is strictly above   *)
(* the slow one, -1 exactly when it is strictly below, and 0 when they are *)
(* equal; for fast = 2, slow = 3 and the closes 10, 10, 10, 12, 14, 16, 8, *)
(* 8, 8 the signals are 0, +1, +1, +1, -1, -1, 0.                          *)
(***************************************************************************)
\* the sum of the `window` closes that end at bar t
WindowSum(window, t) == SumCloses(data, t - window + 1, t)
\* the fast average of bar t against the slow one, as a sign: the averages
\* are compared by their cross products
FastAgainstSlow(t) ==
    LET fast == WindowSum(strategy.fast_period, t) * strategy.slow_period
        slow == WindowSum(strategy.slow_period, t) * strategy.fast_period
    IN  IF fast > slow THEN 1 ELSE IF fast < slow THEN -1 ELSE 0
SnapshotsIn(month) ==
    {k \in 1..Len(result.equity_curve) : result.equity_curve[k].date \div 100 = month}
FirstIn(month) ==
    CHOOSE k \in SnapshotsIn(month) : \A other \in SnapshotsIn(month) : k <= other
LastIn(month) ==
    CHOOSE k \in SnapshotsIn(month) : \A other \in SnapshotsIn(month) : k >= other
ValueAt(k) == result.equity_curve[k].portfolio_value
C12_MonthlyReturns ==
    metrics.name = "monthly_returns" =>
        \A month \in 1..12 :
            IF Cardinality(SnapshotsIn(month)) >= 2
            THEN /\ month \in DOMAIN metrics.value
                 /\ metrics.value[month] =
                        FMul(FDiv(FSub(ValueAt(LastIn(month)), ValueAt(FirstIn(month))),
                                  ValueAt(FirstIn(month))), Num(100))
            ELSE month \notin DOMAIN metrics.value

C12_Witness ==
    /\ metrics.name = "monthly_returns"
    /\ Cardinality(SnapshotsIn(1)) = 2
    /\ Cardinality(SnapshotsIn(2)) = 1
    /\ Cardinality(SnapshotsIn(3)) = 1
    /\ metrics.value = (1 :> Num(10))

(***************************************************************************)
(* C13.  Every call of run_backtest starts from cash = initial_capital,    *)
(* holdings = 0, no trades and no snapshots; the second of two calls on    *)
(* one engine with the same bars and strategy returns the trades and the   *)
(* equity curve of the first (or raises as the first did); and no step of  *)
(* either call changes the caller's bar series.                            *)
(***************************************************************************)
C13_FreshStart ==
    /\ (pc = "loop" /\ i = 0) =>
           /\ cash = initial_capital
           /\ holdings = 0
           /\ trades = <<>>
           /\ equity_curve = <<>>
           /\ prev_portfolio_value = initial_capital
    /\ (pc \in {"done", "raised"} /\ earlier.status # "none") =>
           /\ result.status = earlier.status
           /\ result.status = "returned" =>
                  /\ result.trades = earlier.trades
                  /\ result.equity_curve = earlier.equity_curve
                  /\ result.final_portfolio_value = earlier.final_portfolio_value
C13_InputKept == data' = data /\ strategy' = strategy
C13_CallsAreIndependent == []C13_FreshStart /\ [][C13_InputKept]_vars

C13_Witness ==
    /\ pc = "done"
    /\ earlier.status = "returned"
    /\ Len(result.trades) >= 2
    /\ strategy.kind = "Generic"
    /\ holdings > 0

(***************************************************************************)
(* C14.  On a bar with a BUY signal and no open position: if at least one  *)
(* share is affordable (close * (1 + commission) <= 0.95 * cash), the bar  *)
(* buys the largest whole quantity q with q * close * (1 + commission) <=  *)
(* 0.95 * cash, debits cash by exactly that amount, sets holdings to q and *)
(* appends one BUY trade of quantity q, and at least 5% of the cash before *)
(* the bar is left; otherwise cash, holdings and trades are unchanged.     *)
(***************************************************************************)
C14_BuyStep ==
    (pc = "loop" /\ i' = i + 1 /\ IsBuy(signal_data'[i'].signal) /\ holdings = 0) =>
        LET unit == FMul(signal_data'[i'].close, FAdd(One, commission))
            budget == FMul(Frac(95, 100), cash)
            q == holdings'
        IN  IF FLe(unit, budget)
            THEN /\ q >= 1
                 /\ FLe(FMul(Num(q), unit), budget)
                 /\ FGt(FMul(Num(q + 1), unit), budget)
                 /\ cash' = FSub(cash, FMul(Num(q), unit))
                 /\ FGe(cash', FMul(Frac(5, 100), cash))
                 /\ Len(trades') = Len(trades) + 1
                 /\ SubSeq(trades', 1, Len(trades)) = trades
                 /\ trades'[Len(trades')].action = "BUY"
                 /\ trades'[Len(trades')].quantity = q
                 /\ trades'[Len(trades')].date = signal_data'[i'].date
            ELSE cash' = cash /\ holdings' = holdings /\ trades' = trades
C14_BuyTakesLargestAffordableQuantity == [][C14_BuyStep]_vars

C14_Witness ==
    /\ pc = "loop"
    /\ commission = Frac(1, 10)
    /\ Len(trades) = 1
    /\ trades[1].quantity = 86
    /\ cash = Frac(54, 10)
    /\ holdings = 86

(***************************************************************************)
(* C15.  As claimed: calculate_position_size returns                       *)
(* floor(max_position_size * portfolio_value / price) when no volatility   *)
(* is supplied, and when a volatility estimate is supplied the smaller of  *)
(* that and floor(max_risk_per_trade * portfolio_value / (price *          *)
(* stop_loss_pct)); the result is a whole number >= 0 and never above the  *)
(* fixed-fraction cap.  (Stated where stop_loss_pct > 0, so that the       *)
(* risk-based quotient exists.)                                            *)
(***************************************************************************)
Floor(x) == x.n \div x.d
FixedFractionCap ==
    Floor(FDiv(FMul(max_position_size, returned.portfolio_value), returned.price))
RiskCap ==
    Floor(FDiv(FMul(max_risk_per_trade, returned.portfolio_value),
               FMul(returned.price, stop_loss_pct)))
Observations(curve) == Cardinality({k \in 1..Len(curve) : ~IsNaN(curve[k].returns)})
C16_RiskMetricsAllOrNothing ==
    returned.name = "calculate_portfolio_risk_metrics" =>
        IF Observations(returned.equity_curve) < 30
        THEN DOMAIN returned.value = {}
        ELSE DOMAIN returned.value =
                 {"current_volatility", "current_sharpe", "current_drawdown",
                  "portfolio_value"}

C16_Witness ==
    /\ returned.name = "calculate_portfolio_risk_metrics"
    /\ Len(returned.equity_curve) = 31
    /\ Observations(returned.equity_curve) = 30
    /\ returned.value.portfolio_value = Num(9900)
    /\ returned.value.current_drawdown = Num(-10)
    /\ ~IsNaN(returned.value.current_sharpe)

(***************************************************************************)
(* C17.  As claimed: MACDStrategy.generate_signals gives a bar BUY only if *)
(* the MACD line is strictly above the signal line on that bar and was     *)
(* strictly below it on the bar before, and SELL only if the line is       *)
(* strictly below the signal line and was strictly above it on the bar     *)
(* before; the first bar never carries a signal.                           *)
(***************************************************************************)
IsMACD == pc = "signals" /\ strategy.kind = "MACDStrategy"
LineAbove(t) == FGt(signal_data[t].macd, signal_data[t].macd_signal)
LineBelow(t) == FLt(signal_data[t].macd, signal_data[t].macd_signal)
LineEqual(t) == FEq(signal_data[t].macd, signal_data[t].macd_signal)
C17_CrossFromStrictlyBeyond ==
    IsMACD =>
        /\ Len(signal_data) = Len(data)
        /\ \A t \in 1..Len(signal_data) :
               /\ IsBuy(signal_data[t].signal) =>
                      t > 1 /\ LineAbove(t) /\ LineBelow(t - 1)
               /\ IsSell(signal_data[t].signal) =>
                      t > 1 /\ LineBelow(t) /\ LineAbove(t - 1)
               /\ t = 1 => signal_data[t].signal = Num(0)

(***************************************************************************)
(* C17, amended.  MACDStrategy.generate_signals gives a bar BUY only if    *)
(* the MACD line is strictly above the signal line on that bar and was at  *)
(* or below it on the bar before, and SELL only if the line is strictly    *)
(* below the signal line and was at or above it on the bar before (a bar   *)
(* before on which the two are equal counts as a cross); the first bar     *)
(* never carries a signal.                                                 *)
(***************************************************************************)
C17_CrossFromAtOrBeyond ==
    IsMACD =>
        /\ Len(signal_data) = Len(data)
        /\ \A t \in 1..Len(signal_data) :
               /\ IsBuy(signal_data[t].signal) =>
                      t > 1 /\ LineAbove(t) /\ (LineBelow(t - 1) \/ LineEqual(t - 1))
               /\ IsSell(signal_data[t].signal) =>
                      t > 1 /\ LineBelow(t) /\ (LineAbove(t - 1) \/ LineEqual(t - 1))
               /\ t = 1 => signal_data[t].signal = Num(0)

C17_Witness ==
    /\ IsMACD
    /\ Len(signal_data) >= 3
    /\ IsSell(signal_data[2].signal)
    /\ LineEqual(1)
    /\ IsBuy(signal_data[3].signal)
    /\ LineBelow(2)

(***************************************************************************)
(* C18.  As claimed: BollingerBandStrategy.generate_signals gives BUY to   *)
(* every retained bar whose close is <= the lower band (MA - k * stdev)    *)
(* and SELL to every retained bar whose close is >= the upper band, also   *)
(* on the bars where the rolling deviation is 0 and both bands are the     *)
(* close.                                                                  *)
(***************************************************************************)
IsBollinger == pc = "signals" /\ strategy.kind = "BollingerBandStrategy"
\* the closes of the window that ends at bar t, their mean and the square of
\* their sample deviation, and the close of bar t less the mean
WindowOf(t) == [k \in 1..strategy.period |-> Num(data[t - strategy.period + k])]
Offset(t) == FSub(Num(data[t]), Mean(WindowOf(t)))
SquaredWidth(t) == FMul(FMul(strategy.std_dev, strategy.std_dev), Variance(WindowOf(t)))
\* close <= MA - k * stdev: the close is at or under the mean, by k * stdev or more
AtOrUnderLower(t) ==
    FLe(Offset(t), Zero) /\ FGe(FMul(Offset(t), Offset(t)), SquaredWidth(t))
AtOrOverUpper(t) ==
    FGe(Offset(t), Zero) /\ FGe(FMul(Offset(t), Offset(t)), SquaredWidth(t))
\* the bars kept: those with `period` bars behind them, when a window has a
\* deviation at all (period >= 2)
BollingerRetained ==
    IF strategy.period < 2 THEN <<>>
    ELSE [k \in 1..(Len(data) - strategy.period + 1) |-> k + strategy.period - 1]
C18_BothBandsSignal ==
    IsBollinger =>
        /\ Column(signal_data, "date") = BollingerRetained
        /\ \A k \in 1..Len(signal_data) :
               LET t == signal_data[k].date
               IN  /\ AtOrUnderLower(t) => IsBuy(signal_data[k].signal)
                   /\ AtOrOverUpper(t) => IsSell(signal_data[k].signal)

(***************************************************************************)
(* C18, amended.  BollingerBandStrategy.generate_signals is level-based:   *)
(* every retained bar whose close is >= the upper band carries SELL, and   *)
(* every retained bar whose close is <= the lower band and under the upper *)
(* band carries BUY, every other bar HOLD; a bar where the rolling         *)
(* deviation is 0, so that lower band = upper band = close, meets both     *)
(* conditions and carries SELL.                                            *)
(***************************************************************************)
C18_SellWinsOverBuy ==
    IsBollinger =>
        /\ Column(signal_data, "date") = BollingerRetained
        /\ \A k \in 1..Len(signal_data) :
               LET t == signal_data[k].date
               IN  signal_data[k].signal =
                       IF AtOrOverUpper(t) THEN Num(-1)
                       ELSE IF AtOrUnderLower(t) THEN Num(1)
                       ELSE Num(0)

C18_Witness ==
    /\ IsBollinger
    /\ Len(signal_data) = 2
    /\ IsZero(signal_data[1].std)
    /\ IsSell(signal_data[1].signal)
    /\ IsBuy(signal_data[2].signal)

(***************************************************************************)
(* C19.  Holdings go from positive to 0 only on a bar whose signal is SELL *)
(* and then every share is sold at close * (1 - commission); a bar with    *)
(* any other signal leaves the cash, the holdings and the trades of an     *)
(* open position as they are, whatever its close (also when the stop-loss  *)
(* or take-profit level is reached); and a call of check_stop_loss or      *)
(* check_take_profit changes no field of the engine and nothing of the     *)
(* run.                                                                    *)
(***************************************************************************)
C19_Step ==
    /\ (holdings > 0 /\ holdings' = 0) =>
           /\ pc = "loop" /\ i' = i + 1
           /\ IsSell(signal_data'[i'].signal)
           /\ cash' = FAdd(cash, FMul(FMul(Num(holdings), signal_data'[i'].close),
                                      FSub(One, commission)))
           /\ Len(trades') = Len(trades) + 1
           /\ trades'[Len(trades')].action = "SELL"
           /\ trades'[Len(trades')].quantity = holdings
    /\ (pc = "loop" /\ i' = i + 1 /\ holdings > 0 /\ ~IsSell(signal_data'[i'].signal)) =>
           cash' = cash /\ holdings' = holdings /\ trades' = trades
    /\ returned' # returned =>
           /\ self' = self
           /\ cash' = cash /\ holdings' = holdings /\ trades' = trades
           /\ equity_curve' = equity_curve /\ i' = i /\ pc' = pc
C19_OnlySellSignalsLiquidate == [][C19_Step]_vars

C19_Witness ==
    /\ pc = "done"
    /\ holdings > 0
    /\ Len(trades) = 1
    /\ returned.name = "check_stop_loss"
    /\ returned.position_type = "long"
    /\ returned.value = TRUE
    /\ i > trades[1].date + 1
    /\ FLt(signal_data[i].close, trades[1].price)

(***************************************************************************)
(* C20.  Every trade record has the close of its bar as price, the cash    *)
(* debited (BUY) or credited (SELL) on that bar as value, and a commission *)
(* field equal to the commission paid on the trade:                        *)
(* |value - price * quantity| = quantity * price * commission rate.        *)
(***************************************************************************)
C20_TradeRecordsCommissionPaid ==
    Running =>
        \A k \in 1..Len(trades) :
            LET t == trades[k]
                bar == SnapshotOf(t.date)
                notional == FMul(t.price, Num(t.quantity))
                paid == FAbs(FSub(t.value, notional))
            IN  /\ t.price = signal_data[bar].close
                /\ t.value = FAbs(FSub(CashAfter(bar), CashBefore(bar)))
                /\ paid = FMul(notional, commission)
                /\ t.commission = paid

(***************************************************************************)
(* C21.  With initial_capital > 0, every close > 0 and 0 <= commission < 1 *)
(* the cash is strictly positive before and after every bar, so every      *)
(* snapshot's portfolio value is strictly positive, the value each return  *)
(* is divided by is strictly positive, and every return is a number.       *)
(***************************************************************************)
C21_Premises ==
    /\ Running
    /\ FGt(initial_capital, Zero)
    /\ FGe(commission, Zero)
    /\ FLt(commission, One)
    /\ \A k \in 1..Len(signal_data) : FGt(signal_data[k].close, Zero)
C21_Divisor(k) == IF k = 1 THEN initial_capital ELSE equity_curve[k - 1].portfolio_value
C21_CashAndValueStayPositive ==
    C21_Premises =>
        /\ FGt(cash, Zero)
        /\ FGt(prev_portfolio_value, Zero)
        /\ \A k \in 1..Len(equity_curve) :
            /\ FGt(equity_curve[k].cash, Zero)
            /\ FGt(equity_curve[k].portfolio_value, Zero)
            /\ FGe(equity_curve[k].portfolio_value, equity_curve[k].cash)
            /\ FGt(C21_Divisor(k), Zero)
            /\ IsNum(equity_curve[k].returns)
            /\ equity_curve[k].returns =
                   FDiv(FSub(equity_curve[k].portfolio_value, C21_Divisor(k)),
                        C21_Divisor(k))

\* a purchase that leaves little cash, then a sale at a loss, then a purchase
C21_Witness ==
    /\ C21_Premises
    /\ commission = Frac(1, 10)
    /\ Len(equity_curve) = 3
    /\ Len(trades) = 3
    /\ trades[2].action = "SELL"
    /\ FLt(trades[2].price, trades[1].price)
    /\ FLt(equity_curve[1].cash, FMul(Frac(6, 100), initial_capital))
    /\ FLt(equity_curve[2].portfolio_value, initial_capital)
    /\ FLt(cash, equity_curve[2].cash)

(***************************************************************************)
(* C22.  MACDStrategy.generate_signals is edge-triggered: no two           *)
(* consecutive bars both carry BUY, no two consecutive bars both carry     *)
(* SELL, and between any two bars that carry BUY there is a bar on which   *)
(* the MACD line is not above the signal line.                             *)
(***************************************************************************)
C22_BuyAt(t) == IsBuy(signal_data[t].signal)
C22_SellAt(t) == IsSell(signal_data[t].signal)
C22_EdgeTriggered ==
    IsMACD =>
        /\ \A t \in 1..(Len(signal_data) - 1) :
               /\ ~(C22_BuyAt(t) /\ C22_BuyAt(t + 1))
               /\ ~(C22_SellAt(t) /\ C22_SellAt(t + 1))
        /\ \A first \in 1..Len(signal_data) : \A second \in (first + 1)..Len(signal_data) :
               (C22_BuyAt(first) /\ C22_BuyAt(second)) =>
                   \E t \in (first + 1)..(second - 1) : ~LineAbove(t)

\* two BUY bars in one series, and the SELL bar between them
C22_Witness ==
    /\ IsMACD
    /\ data = ZigzagCloses
    /\ C22_BuyAt(2)
    /\ C22_SellAt(3)
    /\ LineBelow(3)
    /\ C22_BuyAt(4)

====
